---- MODULE Spec2Model ----
(***************************************************************************)
(* A model of upload_csv_to_postgres.py: the column-name sanitizer, the    *)
(* column lists of CREATE TABLE and INSERT, the table name derived from a  *)
(* file name, the batched insert loop, and the per-file transaction that   *)
(* load_csv_to_postgres runs for every file main() finds.                  *)
(*                                                                         *)
(* Python strings are sequences of one-character strings.  A character     *)
(* outside ASCII is written by its code point: "U00E9" is e-acute,         *)
(* "U0663" the Arabic-Indic digit three, "U0130" the capital I with dot    *)
(* above (whose lower case is the two characters "i", "U0307"), "U0307"    *)
(* the combining dot above.                                                *)
(***************************************************************************)
EXTENDS Integers, Sequences, FiniteSets, TLC

\* ------------------------------------------------------------------ bounds
\* Longest label handed to sanitize_column_name.
MaxLabelLen == 4
\* Most columns of a dataset in the column-list specification.
MaxCols == 2
\* Longest file-name stem (the part before the final ".csv").
MaxStemLen == 5
\* Most rows of a dataset in the insert specification.
MaxRows == 2500
\* Most entries of the directory main() lists.
MaxFiles == 3

\* -------------------------------------------------------------- characters
AsciiUpper == <<"A","B","C","D","E","F","G","H","I","J","K","L","M",
                "N","O","P","Q","R","S","T","U","V","W","X","Y","Z">>
AsciiLower == <<"a","b","c","d","e","f","g","h","i","j","k","l","m",
                "n","o","p","q","r","s","t","u","v","w","x","y","z">>
AsciiDigit == {"0","1","2","3","4","5","6","7","8","9"}

Range(s) == {s[k] : k \in 1..Len(s)}

\* str.lower() of one character: a sequence, because one character may lower
\* to two.
LowerChar(c) ==
    IF c \in Range(AsciiUpper)
    THEN <<AsciiLower[CHOOSE k \in 1..26 : AsciiUpper[k] = c]>>
    ELSE IF c = "U00C9" THEN <<"U00E9">>
    ELSE IF c = "U0130" THEN <<"i", "U0307">>
    ELSE <<c>>

\* re's \w on str patterns: alphanumeric in the Unicode database, or "_".
IsWord(c) ==
    \/ c \in Range(AsciiUpper) \cup Range(AsciiLower) \cup AsciiDigit
    \/ c = "_"
    \/ c \in {"U00E9", "U00C9", "U0663", "U0130"}

\* re's \s.
IsSpace(c) == c \in {" ", "TAB"}

\* str.isdigit().
IsDigit(c) == c \in AsciiDigit \cup {"U0663"}

IsAscii(c) ==
    \/ c \in Range(AsciiUpper) \cup Range(AsciiLower) \cup AsciiDigit
    \/ c \in {"_", " ", "TAB", "-", ".", "(", ")"}

\* --------------------------------------------------- sanitize_column_name
RECURSIVE Lower(_)
Lower(s) == IF s = <<>> THEN <<>> ELSE LowerChar(Head(s)) \o Lower(Tail(s))

\* re.sub(r'[^\w\s]', '_', name)
SubSpecial(s) ==
    [k \in 1..Len(s) |->
        IF ~IsWord(s[k]) /\ ~IsSpace(s[k]) THEN "_" ELSE s[k]]

RECURSIVE DropWhile(_, _)
DropWhile(s, S) ==
    IF s # <<>> /\ Head(s) \in S THEN DropWhile(Tail(s), S) ELSE s

Whitespace == {" ", "TAB"}

\* re.sub(r'\s+', '_', name)
RECURSIVE SubWhitespace(_)
SubWhitespace(s) ==
    IF s = <<>> THEN <<>>
    ELSE IF IsSpace(Head(s))
         THEN <<"_">> \o SubWhitespace(DropWhile(Tail(s), Whitespace))
         ELSE <<Head(s)>> \o SubWhitespace(Tail(s))

\* re.sub(r'_+', '_', name)
RECURSIVE CollapseUnderscores(_)
CollapseUnderscores(s) ==
    IF s = <<>> THEN <<>>
    ELSE IF Head(s) = "_"
         THEN <<"_">> \o CollapseUnderscores(DropWhile(Tail(s), {"_"}))
         ELSE <<Head(s)>> \o CollapseUnderscores(Tail(s))

RECURSIVE Reverse(_)
Reverse(s) == IF s = <<>> THEN <<>> ELSE Reverse(Tail(s)) \o <<Head(s)>>

\* name.strip('_')
StripUnderscores(s) ==
    Reverse(DropWhile(Reverse(DropWhile(s, {"_"})), {"_"}))

ColPrefix == <<"c","o","l","_">>
UnnamedColumn == <<"u","n","n","a","m","e","d","_","c","o","l","u","m","n">>

\* The digit test made before the underscores are stripped.
sanitize_prefix_before_strip(column_name) ==
    LET name1 == Lower(column_name)
        name2 == SubSpecial(name1)
        name3 == SubWhitespace(name2)
        name4 == CollapseUnderscores(name3)
        name5 == IF name4 # <<>> /\ IsDigit(name4[1])
                 THEN ColPrefix \o name4 ELSE name4
        name6 == StripUnderscores(name5)
    IN  IF name6 = <<>> THEN UnnamedColumn ELSE name6

\* The digit test left out.
sanitize_no_prefix(column_name) ==
    LET name5 == StripUnderscores(CollapseUnderscores(
                     SubWhitespace(SubSpecial(Lower(column_name)))))
    IN  IF name5 = <<>> THEN UnnamedColumn ELSE name5

sanitize_column_name(column_name) ==
    LET name1 == Lower(column_name)
        name2 == SubSpecial(name1)
        name3 == SubWhitespace(name2)
        name4 == CollapseUnderscores(name3)
        name5 == StripUnderscores(name4)
        name6 == IF name5 # <<>> /\ IsDigit(name5[1])
                 THEN ColPrefix \o name5 ELSE name5
    IN  IF name6 = <<>> THEN UnnamedColumn ELSE name6

\* ^[a-z_][a-z0-9_]*$
MatchesIdentifier(s) ==
    /\ s # <<>>
    /\ s[1] \in Range(AsciiLower) \cup {"_"}
    /\ \A k \in 1..Len(s) : s[k] \in Range(AsciiLower) \cup AsciiDigit \cup {"_"}

\* ------------------------------------------- column lists of the statements
Id == <<"i","d">>
OriginalId == <<"o","r","i","g","i","n","a","l","_","i","d">>

\* The keys of a dict built from a sequence: first occurrences, in order.
RECURSIVE DictKeys(_)
DictKeys(s) ==
    IF s = <<>> THEN <<>>
    ELSE LET init == DictKeys(SubSeq(s, 1, Len(s) - 1))
         IN  IF s[Len(s)] \in Range(init) THEN init
             ELSE Append(init, s[Len(s)])

\* The identifiers create_table puts in CREATE TABLE, in order.
CreateTableColumns(columns) ==
    LET keys == DictKeys(columns)
        sanitized_columns ==
            [k \in 1..Len(keys) |-> sanitize_column_name(keys[k])]
        has_id_column ==
            \E k \in 1..Len(keys) : Lower(sanitized_columns[k]) = Id
    IN  IF has_id_column
        THEN [k \in 1..Len(keys) |->
                 IF Lower(sanitized_columns[k]) = Id THEN OriginalId
                 ELSE sanitized_columns[k]]
        ELSE sanitized_columns

\* insert_data without the rename of 'id'.
InsertColumnsNoRename(columns) ==
    [k \in 1..Len(columns) |-> sanitize_column_name(columns[k])]

\* The identifiers insert_data puts in INSERT INTO, in order.
InsertColumns(columns) ==
    LET sanitized_columns ==
            [k \in 1..Len(columns) |-> sanitize_column_name(columns[k])]
        has_id_column ==
            \E k \in 1..Len(columns) : Lower(sanitized_columns[k]) = Id
    IN  IF has_id_column
        THEN [k \in 1..Len(columns) |->
                 IF Lower(sanitized_columns[k]) = Id THEN OriginalId
                 ELSE sanitized_columns[k]]
        ELSE sanitized_columns

\* DataFrame.empty: some axis has length 0.
DfEmpty(d) == d.rows = 0 \/ Len(d.columns) = 0

\* ------------------------------------------- get_table_name_from_filename
DotCsv == <<".","c","s","v">>

\* str.replace(old, ''): every occurrence of old, found left to right in one
\* pass, is removed.
RECURSIVE RemoveAll(_, _)
RemoveAll(s, old) ==
    IF Len(s) < Len(old) THEN s
    ELSE IF SubSeq(s, 1, Len(old)) = old
         THEN RemoveAll(SubSeq(s, Len(old) + 1, Len(s)), old)
         ELSE <<Head(s)>> \o RemoveAll(Tail(s), old)

get_table_name_from_filename(filename) == RemoveAll(filename, DotCsv)

EndsWith(s, suffix) ==
    /\ Len(s) >= Len(suffix)
    /\ SubSeq(s, Len(s) - Len(suffix) + 1, Len(s)) = suffix

\* ---------------------------------------------------------------- batches
batch_size == 1000

Min(a, b) == IF a < b THEN a ELSE b

\* A slice that stops one row short.
BatchRowsShort(i, total_rows) == Min(i + batch_size - 1, total_rows) - i

\* len(df_copy.iloc[i:i+batch_size])
BatchRows(i, total_rows) == Min(i + batch_size, total_rows) - i

\* ------------------------------------------------------------------ inputs
\* Column labels of the datasets.
LX == <<"X">>
LY == <<"Y">>
LId == <<"i","d">>
LIdUpper == <<"I","D">>
LName == <<"N","a","m","e">>
LASpaceB == <<"A"," ","B">>
LADashB == <<"A","-","B">>
LOriginalId == <<"o","r","i","g","i","n","a","l","_","i","d">>

LabelChoices == {LX, LId, LIdUpper, LName, LASpaceB, LADashB, LOriginalId}

\* Sequences without repetition over S, of length 1..n: pandas.read_csv
\* gives every column a label of its own (a repeated header cell gets a
\* numbered suffix) and raises EmptyDataError when there is no column.
DistinctSeqs(S, n) ==
    UNION {{s \in [1..k -> S] : \A a, b \in 1..k : a # b => s[a] # s[b]}
           : k \in 1..n}

\* Characters of the labels handed to the sanitizer on its own.
LabelAlphabet == {"A", "a", "1", "_", " ", "-", "U00E9", "U0663", "U0130"}

SeqsUpTo(S, n) == UNION {[1..k -> S] : k \in 0..n}

\* Entries of the directory.
FileA == <<"a",".","c","s","v">>
FileACsvCsv == <<"a",".","c","s","v",".","c","s","v">>
FileB == <<"b",".","c","s","v">>
FileTxt == <<"b",".","t","x","t">>
DirNames == {FileA, FileACsvCsv, FileB, FileTxt}

StemAlphabet == {"a", ".", "c", "s", "v"}

\* What read_csv may return for a file in the run.
DatasetChoices ==
    { [columns |-> <<LX, LY>>, rows |-> 2],
      [columns |-> <<LId, LName>>, rows |-> 0],
      [columns |-> <<LASpaceB, LADashB>>, rows |-> 1],
      [columns |-> <<LX>>, rows |-> 2 * batch_size + 500] }

\* A table that is in the database before the run.
OldTable == [cols |-> <<<<"o","l","d">>>>, rows |-> 7, src |-> 0]

\* ------------------------------------------------------------------- state
VARIABLES
    label,        \* the sanitizer's argument
    sanitized,    \* sanitize_column_name(label)
    resanitized,  \* sanitize_column_name(sanitized)
    sanPc,        \* "start", "once", "twice"; "idle" outside SpecSanitize
    directory,    \* the names in CSV_DIRECTORY
    csv_files,    \* main: the sorted list of the names that match *.csv
    idx,          \* main: the position in csv_files of the file being loaded
    pc,           \* the statement the run is at
    table_name,   \* load_csv_to_postgres: table_name
    df,           \* load_csv_to_postgres: the DataFrame read_csv returned
    i,            \* insert_data: the loop variable
    rows_inserted,\* load_csv_to_postgres: what insert_data returned
    err,          \* the exception that was raised in the try block
    results,      \* main: results
    committed,    \* the database as other sessions see it
    working,      \* the database as the connection's transaction sees it
    txn,          \* the files with statements in the open transaction
    calls,        \* the calls made for the file being loaded, in order
    attempted,    \* the files load_csv_to_postgres was called for, in order
    startDb       \* committed, when the file being loaded was started

sanVars == <<label, sanitized, resanitized, sanPc>>
runVars == <<directory, csv_files, idx, pc, table_name, df, i, rows_inserted,
             err, results, committed, working, txn, calls, attempted, startDb>>
vars == <<label, sanitized, resanitized, sanPc, directory, csv_files, idx, pc,
          table_name, df, i, rows_inserted, err, results, committed, working,
          txn, calls, attempted, startDb>>

NoDf == [columns |-> <<>>, rows |-> 0]
EmptyDb == [t \in {} |-> OldTable]

SanIdle ==
    /\ label = <<>>
    /\ sanitized = <<>>
    /\ resanitized = <<>>
    /\ sanPc = "idle"

RunIdle ==
    /\ directory = {}
    /\ csv_files = <<>>
    /\ idx = 1
    /\ pc = "idle"
    /\ table_name = <<>>
    /\ df = NoDf
    /\ i = 0
    /\ rows_inserted = 0
    /\ err = ""
    /\ results = <<>>
    /\ committed = EmptyDb
    /\ working = EmptyDb
    /\ txn = {}
    /\ calls = <<>>
    /\ attempted = <<>>
    /\ startDb = EmptyDb

\* ------------------------------------------------- the sanitizer, on its own
InitSanitize ==
    /\ label \in SeqsUpTo(LabelAlphabet, MaxLabelLen)
    /\ sanitized = <<>>
    /\ resanitized = <<>>
    /\ sanPc = "start"
    /\ RunIdle

Sanitize ==
    /\ sanPc = "start"
    /\ sanitized' = sanitize_column_name(label)
    /\ sanPc' = "once"
    /\ UNCHANGED <<label, resanitized>>
    /\ UNCHANGED runVars

SanitizeAgain ==
    /\ sanPc = "once"
    /\ resanitized' = sanitize_column_name(sanitized)
    /\ sanPc' = "twice"
    /\ UNCHANGED <<label, sanitized>>
    /\ UNCHANGED runVars

NextSanitize == Sanitize \/ SanitizeAgain

SpecSanitize == InitSanitize /\ [][NextSanitize]_vars

\* ----------------------------------------------------------- main: listing
CodePoint(c) ==
    IF c = "." THEN 46
    ELSE IF c \in Range(AsciiLower)
         THEN 96 + (CHOOSE k \in 1..26 : AsciiLower[k] = c)
         ELSE 0

\* Python's < on str.
RECURSIVE LexLess(_, _)
LexLess(s, t) ==
    IF t = <<>> THEN FALSE
    ELSE IF s = <<>> THEN TRUE
    ELSE IF Head(s) # Head(t) THEN CodePoint(Head(s)) < CodePoint(Head(t))
    ELSE LexLess(Tail(s), Tail(t))

\* sorted(S)
RECURSIVE Sorted(_)
Sorted(S) ==
    IF S = {} THEN <<>>
    ELSE LET least == CHOOSE s \in S : \A t \in S \ {s} : LexLess(s, t)
         IN  <<least>> \o Sorted(S \ {least})

\* csv_dir.glob('*.csv')
Glob(dir) == {f \in dir : EndsWith(f, DotCsv)}

Call(op, ok, first, n, cols) ==
    [op |-> op, ok |-> ok, first |-> first, n |-> n, cols |-> cols]

SuccessResult(filename, table, rows, columns) ==
    [filename |-> filename, table_name |-> table, status |-> "success",
     rows |-> rows, columns |-> columns]

FailedResult(filename, table, error) ==
    [filename |-> filename, table_name |-> table, status |-> "failed",
     error |-> error]

\* A table put into, or taken out of, a database.
WithTable(db, t, content) ==
    [u \in DOMAIN db \cup {t} |-> IF u = t THEN content ELSE db[u]]
WithoutTable(db, t) == [u \in DOMAIN db \ {t} |-> db[u]]

HasDuplicates(s) == \E a, b \in 1..Len(s) : a # b /\ s[a] = s[b]

Init ==
    /\ SanIdle
    /\ directory \in {D \in SUBSET DirNames : Cardinality(D) <= MaxFiles}
    /\ csv_files = <<>>
    /\ idx = 1
    /\ pc = "main"
    /\ table_name = <<>>
    /\ df = NoDf
    /\ i = 0
    /\ rows_inserted = 0
    /\ err = ""
    /\ results = <<>>
    /\ committed \in {EmptyDb, WithTable(EmptyDb, <<"a">>, OldTable)}
    /\ working = committed
    /\ txn = {}
    /\ calls = <<>>
    /\ attempted = <<>>
    /\ startDb = committed

\* main, lines 280-284: the sorted list of CSV files, or exit(1).
ListFiles ==
    /\ pc = "main"
    /\ csv_files' = Sorted(Glob(directory))
    /\ pc' = IF Glob(directory) = {} THEN "exit1" ELSE "connect"
    /\ UNCHANGED <<directory, idx, table_name, df, i, rows_inserted, err,
                   results, committed, working, txn, calls, attempted, startDb>>
    /\ UNCHANGED sanVars

\* main, lines 289-302: psycopg2.connect, or exit(1) on psycopg2.Error.
Connect ==
    /\ pc = "connect"
    /\ \E ok \in BOOLEAN : pc' = IF ok THEN "loop" ELSE "exit1"
    /\ UNCHANGED <<directory, csv_files, idx, table_name, df, i,
                   rows_inserted, err, results, committed, working, txn,
                   calls, attempted, startDb>>
    /\ UNCHANGED sanVars

\* main line 307 and load_csv_to_postgres lines 223-224: the next file is
\* handed to load_csv_to_postgres, which derives the table name.
LoadEnter ==
    /\ pc = "loop"
    /\ idx <= Len(csv_files)
    /\ table_name' = get_table_name_from_filename(csv_files[idx])
    /\ attempted' = Append(attempted, csv_files[idx])
    /\ calls' = <<>>
    /\ startDb' = committed
    /\ pc' = "read_csv"
    /\ UNCHANGED <<directory, csv_files, idx, df, i, rows_inserted, err,
                   results, committed, working, txn>>
    /\ UNCHANGED sanVars

\* Line 231: read_csv returns a DataFrame or raises.
ReadCsv ==
    /\ pc = "read_csv"
    /\ \/ /\ df' \in DatasetChoices
          /\ calls' = Append(calls, Call("read_csv", TRUE, 0, 0, <<>>))
          /\ pc' = "drop"
          /\ UNCHANGED err
       \/ /\ calls' = Append(calls, Call("read_csv", FALSE, 0, 0, <<>>))
          /\ err' = "read_csv"
          /\ pc' = "rollback"
          /\ UNCHANGED df
    /\ UNCHANGED <<directory, csv_files, idx, table_name, i, rows_inserted,
                   results, committed, working, txn, attempted, startDb>>
    /\ UNCHANGED sanVars

\* create_table, line 137: DROP TABLE IF EXISTS, the first statement of the
\* connection's transaction.
CreateTableDrop ==
    /\ pc = "drop"
    /\ txn' = txn \cup {idx}
    /\ \E ok \in BOOLEAN :
          /\ calls' = Append(calls, Call("drop", ok, 0, 0, <<>>))
          /\ IF ok
             THEN /\ working' = WithoutTable(working, table_name)
                  /\ pc' = "create"
                  /\ UNCHANGED err
             ELSE /\ err' = "drop"
                  /\ pc' = "rollback"
                  /\ UNCHANGED working
    /\ UNCHANGED <<directory, csv_files, idx, table_name, df, i,
                   rows_inserted, results, committed, attempted, startDb>>
    /\ UNCHANGED sanVars

\* create_table, lines 105-138: CREATE TABLE with the sanitized columns. The
\* database rejects a column named twice; any statement may fail besides.
CreateTableCreate ==
    /\ pc = "create"
    /\ txn' = txn \cup {idx}
    /\ LET cols == CreateTableColumns(df.columns)
           rejected == HasDuplicates(cols) \/ table_name \in DOMAIN working
       IN  \E ok \in (IF rejected THEN {FALSE} ELSE BOOLEAN) :
              /\ calls' = Append(calls, Call("create", ok, 0, 0, cols))
              /\ IF ok
                 THEN /\ working' = WithTable(working, table_name,
                              [cols |-> cols, rows |-> 0, src |-> idx])
                      /\ pc' = "insert_data"
                      /\ UNCHANGED err
                 ELSE /\ err' = "create"
                      /\ pc' = "rollback"
                      /\ UNCHANGED working
    /\ UNCHANGED <<directory, csv_files, idx, table_name, df, i,
                   rows_inserted, results, committed, attempted, startDb>>
    /\ UNCHANGED sanVars

\* insert_data, lines 155-181: nothing to do for an empty DataFrame; else the
\* loop starts at row 0.
InsertEnter ==
    /\ pc = "insert_data"
    /\ IF DfEmpty(df)
       THEN /\ rows_inserted' = 0
            /\ pc' = "commit"
            /\ UNCHANGED i
       ELSE /\ i' = 0
            /\ pc' = "insert_loop"
            /\ UNCHANGED rows_inserted
    /\ UNCHANGED <<directory, csv_files, idx, table_name, df, err, results,
                   committed, working, txn, calls, attempted, startDb>>
    /\ UNCHANGED sanVars

\* Batches go on after one has failed.
InsertBatchContinue ==
    /\ pc = "insert_loop"
    /\ i < df.rows
    /\ txn' = txn \cup {idx}
    /\ LET cols == InsertColumns(df.columns)
           n == BatchRows(i, df.rows)
       IN  \E ok \in BOOLEAN :
              /\ calls' = Append(calls, Call("insert", ok, i, n, cols))
              /\ i' = i + batch_size
              /\ working' = IF ok /\ table_name \in DOMAIN working
                            THEN [working EXCEPT ![table_name].rows = @ + n]
                            ELSE working
    /\ UNCHANGED <<pc, err, directory, csv_files, idx, table_name, df,
                   rows_inserted, results, committed, attempted, startDb>>
    /\ UNCHANGED sanVars

\* insert_data, lines 183-186: one executemany of the next batch_size rows.
\* The database rejects it when the table or one of the columns is missing.
InsertBatch ==
    /\ pc = "insert_loop"
    /\ i < df.rows
    /\ txn' = txn \cup {idx}
    /\ LET cols == InsertColumns(df.columns)
           n == BatchRows(i, df.rows)
           rejected == \/ table_name \notin DOMAIN working
                       \/ ~(Range(cols) \subseteq Range(working[table_name].cols))
       IN  \E ok \in (IF rejected THEN {FALSE} ELSE BOOLEAN) :
              /\ calls' = Append(calls, Call("insert", ok, i, n, cols))
              /\ IF ok
                 THEN /\ working' =
                           [working EXCEPT ![table_name].rows = @ + n]
                      /\ i' = i + batch_size
                      /\ UNCHANGED <<pc, err>>
                 ELSE /\ err' = "insert"
                      /\ pc' = "rollback"
                      /\ UNCHANGED <<working, i>>
    /\ UNCHANGED <<directory, csv_files, idx, table_name, df, rows_inserted,
                   results, committed, attempted, startDb>>
    /\ UNCHANGED sanVars

\* insert_data, line 193: the loop is over, total_rows is returned.
InsertReturn ==
    /\ pc = "insert_loop"
    /\ i >= df.rows
    /\ rows_inserted' = df.rows
    /\ pc' = "commit"
    /\ UNCHANGED <<directory, csv_files, idx, table_name, df, i, err, results,
                   committed, working, txn, calls, attempted, startDb>>
    /\ UNCHANGED sanVars

\* A failed commit taken for a success.
CommitUnchecked ==
    /\ pc = "commit"
    /\ \E ok \in BOOLEAN :
          /\ calls' = Append(calls, Call("commit", ok, 0, 0, <<>>))
          /\ committed' = IF ok THEN working ELSE committed
          /\ txn' = IF ok THEN {} ELSE txn
    /\ results' = Append(results,
           SuccessResult(csv_files[idx], table_name, rows_inserted,
                         Len(df.columns)))
    /\ idx' = idx + 1
    /\ pc' = "loop"
    /\ UNCHANGED <<err, working, directory, csv_files, table_name, df, i,
                   rows_inserted, attempted, startDb>>
    /\ UNCHANGED sanVars

\* load_csv_to_postgres, lines 241-249, and main line 308: commit, and the
\* success record is appended to results.
Commit ==
    /\ pc = "commit"
    /\ \E ok \in BOOLEAN :
          /\ calls' = Append(calls, Call("commit", ok, 0, 0, <<>>))
          /\ IF ok
             THEN /\ committed' = working
                  /\ txn' = {}
                  /\ results' = Append(results,
                         SuccessResult(csv_files[idx], table_name,
                                       rows_inserted, Len(df.columns)))
                  /\ idx' = idx + 1
                  /\ pc' = "loop"
                  /\ UNCHANGED err
             ELSE /\ err' = "commit"
                  /\ pc' = "rollback"
                  /\ UNCHANGED <<committed, txn, results, idx>>
    /\ UNCHANGED <<directory, csv_files, table_name, df, i, rows_inserted,
                   working, attempted, startDb>>
    /\ UNCHANGED sanVars

\* The failure record returned without a rollback.
RollbackSkipped ==
    /\ pc = "rollback"
    /\ results' = Append(results,
           FailedResult(csv_files[idx], table_name, err))
    /\ idx' = idx + 1
    /\ pc' = "loop"
    /\ calls' = Append(calls, Call("rollback", TRUE, 0, 0, <<>>))
    /\ UNCHANGED <<working, txn, directory, csv_files, table_name, df, i,
                   rows_inserted, err, committed, attempted, startDb>>
    /\ UNCHANGED sanVars

\* load_csv_to_postgres, lines 251-259, and main line 308: rollback in the
\* except block, and the failure record is appended to results. A rollback
\* that raises leaves the handler, the function and main's loop (lines
\* 343-352: the process exits with 1).
Rollback ==
    /\ pc = "rollback"
    /\ \E ok \in BOOLEAN :
          /\ calls' = Append(calls, Call("rollback", ok, 0, 0, <<>>))
          /\ IF ok
             THEN /\ working' = committed
                  /\ txn' = {}
                  /\ results' = Append(results,
                         FailedResult(csv_files[idx], table_name, err))
                  /\ idx' = idx + 1
                  /\ pc' = "loop"
             ELSE /\ pc' = "crashed"
                  /\ UNCHANGED <<working, txn, results, idx>>
    /\ UNCHANGED <<directory, csv_files, table_name, df, i, rows_inserted,
                   err, committed, attempted, startDb>>
    /\ UNCHANGED sanVars

\* main, lines 311-312: the loop is over, the connection is closed, which
\* ends whatever transaction is open.
Close ==
    /\ pc = "loop"
    /\ idx > Len(csv_files)
    /\ working' = committed
    /\ txn' = {}
    /\ pc' = "summary"
    /\ UNCHANGED <<directory, csv_files, idx, table_name, df, i,
                   rows_inserted, err, results, committed, calls, attempted,
                   startDb>>
    /\ UNCHANGED sanVars

Next ==
    \/ ListFiles
    \/ Connect
    \/ LoadEnter
    \/ ReadCsv
    \/ CreateTableDrop
    \/ CreateTableCreate
    \/ InsertEnter
    \/ InsertBatch
    \/ InsertReturn
    \/ Commit
    \/ Rollback
    \/ Close

Spec == Init /\ [][Next]_vars

\* ------------------------------------------ the table name, from LoadEnter
\* main is about to hand one file, whose name ends in ".csv", to
\* load_csv_to_postgres.
InitName ==
    /\ SanIdle
    /\ \E stem \in SeqsUpTo(StemAlphabet, MaxStemLen) \ {<<>>} :
          /\ directory = {stem \o DotCsv}
          /\ csv_files = <<stem \o DotCsv>>
    /\ idx = 1
    /\ pc = "loop"
    /\ table_name = <<>>
    /\ df = NoDf
    /\ i = 0
    /\ rows_inserted = 0
    /\ err = ""
    /\ results = <<>>
    /\ committed = EmptyDb
    /\ working = EmptyDb
    /\ txn = {}
    /\ calls = <<>>
    /\ attempted = <<>>
    /\ startDb = EmptyDb

NextName == LoadEnter

SpecName == InitName /\ [][NextName]_vars

\* --------------------------- the column lists, from create_table/insert_data
\* read_csv has returned a DataFrame; create_table is about to run.
InitColumns ==
    /\ SanIdle
    /\ directory = {FileA}
    /\ csv_files = <<FileA>>
    /\ idx = 1
    /\ pc = "drop"
    /\ table_name = <<"a">>
    /\ \E c \in DistinctSeqs(LabelChoices, MaxCols), r \in {0, 1} :
          df = [columns |-> c, rows |-> r]
    /\ i = 0
    /\ rows_inserted = 0
    /\ err = ""
    /\ results = <<>>
    /\ committed = EmptyDb
    /\ working = EmptyDb
    /\ txn = {}
    /\ calls = <<Call("read_csv", TRUE, 0, 0, <<>>)>>
    /\ attempted = <<FileA>>
    /\ startDb = EmptyDb

NextColumns ==
    \/ CreateTableDrop
    \/ CreateTableCreate
    \/ InsertEnter
    \/ InsertBatch
    \/ InsertReturn

SpecColumns == InitColumns /\ [][NextColumns]_vars

\* ------------------------------------------------ the batches of insert_data
\* create_table has returned; insert_data is about to run on a DataFrame of
\* 0..MaxRows rows.
InitInsert ==
    /\ SanIdle
    /\ directory = {FileA}
    /\ csv_files = <<FileA>>
    /\ idx = 1
    /\ pc = "insert_data"
    /\ table_name = <<"a">>
    /\ \E n \in 0..MaxRows : df = [columns |-> <<LX, LY>>, rows |-> n]
    /\ i = 0
    /\ rows_inserted = 0
    /\ err = ""
    /\ results = <<>>
    /\ committed = EmptyDb
    /\ working = WithTable(EmptyDb, <<"a">>,
                     [cols |-> CreateTableColumns(<<LX, LY>>), rows |-> 0,
                      src |-> 1])
    /\ txn = {1}
    /\ calls = <<>>
    /\ attempted = <<FileA>>
    /\ startDb = EmptyDb

NextInsert == InsertEnter \/ InsertBatch \/ InsertReturn

SpecInsert == InitInsert /\ [][NextInsert]_vars

\* ================================================================== claims
LastResult == results[Len(results)]
Returned == pc \in {"loop", "summary"} /\ results # <<>>
Count(op) == Cardinality({k \in 1..Len(calls) : calls[k].op = op})
IsInsert(c) == c.op = "insert"
InsertCalls == SelectSeq(calls, IsInsert)
\* ceil(n / batch_size)
Batches(n) == (n + batch_size - 1) \div batch_size
RECURSIVE SumRows(_)
SumRows(s) == IF s = <<>> THEN 0 ELSE Head(s).n + SumRows(Tail(s))
TrySteps == {"read_csv", "drop", "create", "insert", "commit"}

\* C1: the record load_csv_to_postgres returns has status 'success' exactly
\* when read_csv, DROP, CREATE, every insert batch and commit completed
\* without error; then commit was issued once, rollback not at all, and the
\* record carries the dataset's row and column counts. Otherwise the status
\* is 'failed', rollback was issued exactly once, and the record carries the
\* description of the one error that was raised.
C1_LoadResult ==
    Returned =>
        LET r == LastResult
            completed ==
                /\ \A op \in TrySteps \ {"insert"} : Count(op) = 1
                /\ Count("insert") = Batches(df.rows)
                /\ \A k \in 1..Len(calls) :
                      calls[k].op \in TrySteps => calls[k].ok
            failedCalls ==
                {k \in 1..Len(calls) : calls[k].op \in TrySteps /\ ~calls[k].ok}
        IN  /\ r.status \in {"success", "failed"}
            /\ (r.status = "success") <=> completed
            /\ r.status = "success" =>
                  /\ Count("commit") = 1
                  /\ Count("rollback") = 0
                  /\ r.rows = df.rows
                  /\ r.columns = Len(df.columns)
            /\ r.status = "failed" =>
                  /\ Count("rollback") = 1
                  /\ Cardinality(failedCalls) = 1
                  /\ \A k \in failedCalls : r.error = calls[k].op

\* A failed file (its commit raised) followed by a loaded file of 2500 rows.
C1_Witness ==
    /\ Returned
    /\ Len(results) = 2
    /\ results[1].status = "failed"
    /\ results[1].error = "commit"
    /\ results[2].status = "success"
    /\ results[2].rows = 2 * batch_size + 500

\* C2: when the loop over the files ends, however the loads failed (a raising
\* rollback included), every file was attempted once, in sorted order, and
\* results holds one record per file in that order.
C2_EveryFileGetsAResult ==
    pc \in {"summary", "crashed"} =>
        /\ attempted = csv_files
        /\ Len(results) = Len(csv_files)
        /\ \A k \in 1..Len(results) : results[k].filename = csv_files[k]

\* C3: when no insert fails, insert_data issues ceil(n/1000) executemany
\* calls in row order, each of 1000 rows but the last, which has the 1..1000
\* rows that are left; the sizes sum to n, and n is returned.
C3_Batches ==
    pc = "commit" =>
        LET n == df.rows
            k == Batches(n)
            ins == InsertCalls
        IN  /\ Len(ins) = k
            /\ \A j \in 1..Len(ins) :
                  /\ ins[j].ok
                  /\ ins[j].first = (j - 1) * batch_size
                  /\ ins[j].n = IF j < k THEN batch_size
                                ELSE n - batch_size * (k - 1)
                  /\ ins[j].n \in 1..batch_size
            /\ SumRows(ins) = n
            /\ rows_inserted = n
            /\ working[table_name].rows = n

\* 2500 rows: batches of 1000, 1000 and 500, and 2500 returned.
C3_Witness ==
    /\ pc = "commit"
    /\ df.rows = 2 * batch_size + 500
    /\ Len(calls) = 3
    /\ calls[1].n = batch_size
    /\ calls[2].n = batch_size
    /\ calls[3].n = 500
    /\ rows_inserted = 2 * batch_size + 500

\* The list has one identifier per label; a label that sanitizes to 'id' is
\* there as 'original_id', and 'id' is not in the list.
Renamed(cols) ==
    /\ Len(cols) = Len(df.columns)
    /\ \A m \in 1..Len(cols) :
          /\ sanitize_column_name(df.columns[m]) = Id => cols[m] = OriginalId
          /\ cols[m] # Id

\* C4: the identifiers of the CREATE TABLE statement and those of the INSERT
\* statement are the same list; in both, a label whose sanitized form is 'id'
\* is 'original_id', and none is 'id'.
C4_SameColumns ==
    \A j, k \in 1..Len(calls) :
        /\ calls[j].op \in {"create", "insert"} => Renamed(calls[j].cols)
        /\ calls[j].op = "create" /\ calls[k].op = "insert" =>
              calls[j].cols = calls[k].cols

\* Labels ["id", "Name"]: both statements name original_id, name.
C4_Witness ==
    /\ df.columns = <<LId, LName>>
    /\ \E j, k \in 1..Len(calls) :
          /\ calls[j].op = "create"
          /\ calls[j].cols = <<OriginalId, <<"n","a","m","e">>>>
          /\ calls[k].op = "insert"
          /\ calls[k].cols = <<OriginalId, <<"n","a","m","e">>>>

\* C5, as claimed: every output of sanitize_column_name matches
\* ^[a-z_][a-z0-9_]*$ or is 'unnamed_column', is not empty and does not
\* start with a digit.
C5_MatchesPattern ==
    sanPc \in {"once", "twice"} =>
        /\ MatchesIdentifier(sanitized) \/ sanitized = UnnamedColumn
        /\ sanitized # <<>>
        /\ ~IsDigit(sanitized[1])

\* C5, amended: every output of sanitize_column_name is non-empty and does
\* not start with a digit; when the label has only ASCII characters the
\* output matches ^[a-z_][a-z0-9_]*$ (as 'unnamed_column' does).
C5_Shape ==
    sanPc \in {"once", "twice"} =>
        /\ sanitized # <<>>
        /\ ~IsDigit(sanitized[1])
        /\ (\A k \in 1..Len(label) : IsAscii(label[k])) =>
              MatchesIdentifier(sanitized)

\* "1 A" becomes col_1_a.
C5_Witness ==
    /\ sanPc = "once"
    /\ label = <<"1", " ", "A">>
    /\ sanitized = <<"c","o","l","_","1","_","a">>

\* C6: sanitize_column_name applied to one of its outputs returns it.
C6_Idempotent == sanPc = "twice" => resanitized = sanitized

\* An output with the col_ prefix, sanitized again.
C6_Witness ==
    /\ sanPc = "twice"
    /\ label = <<"_", "1", "-">>
    /\ sanitized = <<"c","o","l","_","1">>
    /\ resanitized = <<"c","o","l","_","1">>

\* C7: the labels of a dataset being pairwise distinct, the identifiers of
\* its CREATE TABLE statement are pairwise distinct, whatever their case.
C7_DistinctIdentifiers ==
    \A k \in 1..Len(calls) :
        calls[k].op = "create" =>
            ~HasDuplicates([m \in 1..Len(calls[k].cols) |->
                               Lower(calls[k].cols[m])])

\* C8: the table name of a file whose name ends in '.csv' is the file name
\* without that ending: the name is the table name followed by '.csv'.
C8_OnlyExtensionRemoved ==
    pc = "read_csv" => table_name \o DotCsv = csv_files[idx]

Rank(op) ==
    CASE op = "read_csv" -> 0
      [] op = "drop" -> 1
      [] op = "create" -> 2
      [] op = "insert" -> 3
      [] op = "commit" -> 4
      [] op = "rollback" -> 5

\* C9: for one file the calls are DROP, CREATE, the insert batches in row
\* order, commit; commit comes only after every batch went through; after a
\* call that failed the only call is the rollback.
C9_StatementOrder ==
    LET n == Len(calls)
    IN  /\ \A j, k \in 1..n :
              j < k =>
                 \/ Rank(calls[j].op) < Rank(calls[k].op)
                 \/ /\ calls[j].op = "insert"
                    /\ calls[k].op = "insert"
                    /\ calls[j].first < calls[k].first
        /\ \A k \in 1..n :
              /\ calls[k].op = "create" => k > 1 /\ calls[k - 1].op = "drop"
              /\ calls[k].op = "insert" =>
                    /\ \E j \in 1..(k - 1) : calls[j].op = "create"
                    /\ calls[k].first =
                          IF calls[k - 1].op = "insert"
                          THEN calls[k - 1].first + batch_size ELSE 0
              /\ calls[k].op = "commit" =>
                    /\ \A j \in 1..(k - 1) : calls[j].ok
                    /\ Count("drop") = 1
                    /\ Count("create") = 1
                    /\ Count("insert") = Batches(df.rows)
              /\ calls[k].op = "rollback" => k > 1 /\ ~calls[k - 1].ok
              /\ ~calls[k].ok /\ k < n =>
                    k + 1 = n /\ calls[n].op = "rollback"

\* The second batch of three fails: no third batch, no commit, a rollback.
C9_Witness ==
    /\ Len(calls) = 6
    /\ df.rows = 2 * batch_size + 500
    /\ calls[4].op = "insert" /\ calls[4].ok
    /\ calls[5].op = "insert" /\ ~calls[5].ok
    /\ calls[6].op = "rollback"

\* C10: the open transaction holds statements of the file being loaded only;
\* when a file is started nothing is uncommitted; and a file that ends
\* 'failed' leaves the committed tables as they were when it started.
C10_TransactionPerFile ==
    /\ txn \subseteq {idx}
    /\ pc \in {"loop", "read_csv", "drop", "summary"} =>
          txn = {} /\ working = committed
    /\ Returned /\ LastResult.status = "failed" => committed = startDb

\* A file whose DROP went through on a table that was there before the run,
\* and that failed later: the table is still there.
C10_Witness ==
    /\ Returned
    /\ LastResult.status = "failed"
    /\ table_name \in DOMAIN startDb
    /\ \E k \in 1..Len(calls) : calls[k].op = "drop" /\ calls[k].ok
    /\ table_name \in DOMAIN committed
    /\ committed[table_name] = OldTable

====
